---- MODULE Spec2Model ----
(***************************************************************************)
(* Metric scheduling and publishing core of the TrustyAI service:          *)
(* PrometheusScheduler (request table, evaluation pass, periodic task) and *)
(* PrometheusPublisher (gauges in a prometheus registry, value map).       *)
(*                                                                         *)
(* Python values are modelled as follows.                                  *)
(*   uuid.UUID        a string naming the UUID object; Str(id) is its      *)
(*                    string form, uuid5(s) the UUID derived from bytes s  *)
(*   dict (ordered)   a sequence of [k, v] records in insertion order when *)
(*                    the code iterates it, a function otherwise           *)
(*   Optional[x]      Some(x) or None                                      *)
(*   exceptions       the field raised of an operation's result, "none"    *)
(*                    when the operation returned                          *)
(* prometheus_client is a library: CollectorRegistry is modelled by its    *)
(* _names_to_collectors map, register/unregister, and Gauge.labels().set() *)
(* on the _metrics of a Gauge. A collector's name attribute is taken to be *)
(* the name it was created with, as remove_gauge reads it.                 *)
(***************************************************************************)
EXTENDS Integers, Sequences, FiniteSets, TLC

VARIABLES
    requests,       \* PrometheusScheduler.requests: metric name -> (id -> request)
    has_logged,     \* PrometheusScheduler.has_logged_skipped_request_message
    registry,       \* PrometheusPublisher.registry._names_to_collectors
    values,         \* PrometheusPublisher.values
    ds,             \* the DataSource: known_models and what storage holds
    nRegistered,    \* number of register calls that returned
    deleted,        \* <<metric, id>>: entries a delete removed, the id not registered since
    task,           \* the periodic task: scheduled flag, tasks added, position
    last,           \* the last call: its arguments, what it raised, what the
                    \* logger of its own module wrote, and what it did
    carrier,        \* a MetricValueCarrier a caller holds
    run             \* a calculate_manual call in flight on another thread

vars == <<requests, has_logged, registry, values, ds, nRegistered, deleted, task, last,
          carrier, run>>

----------------------------------------------------------------------------
(* Bounds *)

MaxRegistrations == 2
MaxRows == 3
MaxBatch == 2

\* the largest value a caller puts in a carrier
MaxValue == 3

----------------------------------------------------------------------------
(* Python helpers *)

None == [some |-> FALSE]
Some(x) == [some |-> TRUE, v |-> x]

EmptyDict == <<>>

\* d.update(e) on dicts without iteration order: e's entries win
Update(d, e) == e @@ d

\* del d[k], k in d
Remove(d, k) == [x \in (DOMAIN d) \ {k} |-> d[x]]

\* d[k] = v
Put(d, k, v) == (k :> v) @@ d

Min(a, b) == IF a <= b THEN a ELSE b

\* df.head(n): the leading rows
DfHead(df, n) == SubSeq(df, 1, n)

\* df.tail(n), 0 <= n <= len(df)
DfTail(df, n) == SubSeq(df, Len(df) - n + 1, Len(df))

\* str(i) of a small index
IdxStr(i) == CASE i = 0 -> "0" [] i = 1 -> "1" [] i = 2 -> "2" [] OTHER -> "3"

\* str(id): the string form of a UUID is not the UUID object
Str(id) == "uuid:" \o id

\* uuid.uuid5(uuid.NAMESPACE_DNS, s): deterministic in s
uuid5(s) == "u5(" \o s \o ")"

----------------------------------------------------------------------------
(* Names *)

Models == {"m1", "m2"}
Ids == {"r1", "r2"}

\* the metric names requests are registered under
Metrics == {"SPD", "DIR", "XYZ"}

PROMETHEUS_METRIC_PREFIX == "trustyai_"

\* name.lower()
Lower(name) ==
    CASE name = "SPD" -> "spd"
      [] name = "DIR" -> "dir"
      [] name = "XYZ" -> "xyz"
      [] name = "MODEL_COUNT_TOTAL" -> "model_count_total"
      [] name = "MODEL_OBSERVATIONS_TOTAL" -> "model_observations_total"
      [] OTHER -> name

FullName(name) == PROMETHEUS_METRIC_PREFIX \o Lower(name)

----------------------------------------------------------------------------
(* Requests (BaseMetricRequest) *)

Request(model_id, metric_name, batch_size) ==
    [model_id |-> model_id, metric_name |-> metric_name, batch_size |-> batch_size]

retrieve_default_tags(request) ==
    [metricName |-> request.metric_name, model |-> request.model_id]

\* the request-specific tags; those of a DIR request hold a key "request"
retrieve_tags(request) ==
    IF request.metric_name = "DIR"
    THEN [request |-> "privileged"]
    ELSE [outcome |-> "income"]

----------------------------------------------------------------------------
(* prometheus_client: CollectorRegistry and Gauge *)

\* Gauge(name, documentation, labelnames, registry) before registration
NewGauge(name, labelnames) ==
    [kind |-> "Gauge", name |-> name, names |-> {name},
     labelnames |-> labelnames, metrics |-> {}]

\* a collector that is not a Gauge: a Counter, which owns three names
NewCounter(name) ==
    [kind |-> "Counter", name |-> name,
     names |-> {name, name \o "_total", name \o "_created"},
     labelnames |-> {}, metrics |-> {}]

\* CollectorRegistry.register
RegistryRegister(reg, collector) ==
    [n \in (DOMAIN reg) \cup collector.names |->
        IF n \in collector.names THEN collector ELSE reg[n]]

IsRegistered(reg, collector) ==
    \E n \in DOMAIN reg : reg[n] = collector

\* CollectorRegistry.unregister of a registered collector
RegistryUnregister(reg, collector) ==
    [n \in (DOMAIN reg) \ collector.names |-> reg[n]]

\* gauge.labels(**tags).set(v) on the registered gauge under name
SetLabels(reg, name, tags, v) ==
    LET g == reg[name]
        kept == {s \in g.metrics : s.labels # tags}
    IN [reg EXCEPT ![name] =
            [g EXCEPT !.metrics = kept \cup {[labels |-> tags, value |-> v]}]]

\* the label-combinations in the registry: [name, labels, value]
Series(reg) ==
    UNION { {[name |-> reg[n].name, labels |-> s.labels, value |-> s.value] :
                s \in reg[n].metrics} : n \in DOMAIN reg }

\* the label-combinations under name whose request label is label
SeriesOf(reg, name, label) ==
    {s \in Series(reg) :
        /\ s.name = name
        /\ "request" \in DOMAIN s.labels
        /\ s.labels.request = label}

----------------------------------------------------------------------------
(* PrometheusPublisher *)

\* A publisher operation works on pub = [registry, values] and yields the new
\* registry and values, what it raised, the series it set and whether it
\* logged the replacement warning.
PubResult(reg, vals, raised, published, warned) ==
    [registry |-> reg, values |-> vals, raised |-> raised,
     published |-> published, warned |-> warned]

_create_or_update_gauge(reg, vals, name, tags, id) ==
    IF name \notin DOMAIN reg \/ reg[name].kind # "Gauge"
    THEN LET replaced == name \in DOMAIN reg
             reg1 == IF replaced THEN RegistryUnregister(reg, reg[name]) ELSE reg
             reg2 == RegistryRegister(reg1, NewGauge(name, DOMAIN tags))
         IN PubResult(SetLabels(reg2, name, tags, vals[id]), vals, "none",
                      {[name |-> name, labels |-> tags, value |-> vals[id]]},
                      replaced)
    \* the local gauge is bound only in the branch above
    ELSE PubResult(reg, vals, "UnboundLocalError", {}, FALSE)

\* tags that take the request label first, so that the request's own tags win
_generate_tagsRequestFirst(model_name, id, request) ==
    LET tags0 == Put(EmptyDict, "request", Str(id))
    IN IF request.some
       THEN Update(Update(tags0, retrieve_default_tags(request.v)),
                   retrieve_tags(request.v))
       ELSE IF model_name # ""
            THEN Put(tags0, "model", model_name)
            ELSE tags0

_generate_tags(model_name, id, request) ==
    LET tags0 == IF request.some
                 THEN Update(Update(EmptyDict, retrieve_default_tags(request.v)),
                             retrieve_tags(request.v))
                 ELSE IF model_name # ""
                      THEN Put(EmptyDict, "model", model_name)
                      ELSE EmptyDict
    IN Put(tags0, "request", Str(id))

\* self.registry.unregister(gauge) for each gauge of the list, in order
RECURSIVE UnregisterAll(_, _)
UnregisterAll(reg, gauges) ==
    IF gauges = <<>> THEN [registry |-> reg, raised |-> "none"]
    ELSE IF ~IsRegistered(reg, Head(gauges))
         THEN [registry |-> reg, raised |-> "KeyError"]
         ELSE UnregisterAll(RegistryUnregister(reg, Head(gauges)), Tail(gauges))

\* the UUID itself, which no label equals
RemoveLabelRaw(id) == id

\* the request label as remove_gauge compares it
RemoveLabel(id) == Str(id)

\* gauges_to_remove: each Gauge named full_name, once per label-combination
\* of it whose request label is that of the id (names are unique in a
\* registry, so at most one collector has the name)
GaugesToRemove(reg, full_name, id) ==
    LET found == {c \in {reg[n] : n \in DOMAIN reg} :
                    c.name = full_name /\ c.kind = "Gauge"}
    IN IF found = {} THEN <<>>
       ELSE LET g == CHOOSE c \in found : TRUE
                n == Cardinality({s \in g.metrics :
                        /\ "request" \in DOMAIN s.labels
                        /\ s.labels.request = RemoveLabel(id)})
            IN [i \in 1..n |-> g]

\* a del self.values[id] without the membership test
RemoveValueUnchecked(un, vals, id) ==
    IF un.raised # "none"
    THEN PubResult(un.registry, vals, un.raised, {}, FALSE)
    ELSE IF id \in DOMAIN vals
    THEN PubResult(un.registry, Remove(vals, id), "none", {}, FALSE)
    ELSE PubResult(un.registry, vals, "KeyError", {}, FALSE)

\* lines 50-51 of remove_gauge, reached when no unregister raised
RemoveValue(un, vals, id) ==
    IF un.raised # "none"
    THEN PubResult(un.registry, vals, un.raised, {}, FALSE)
    ELSE PubResult(un.registry,
                   IF id \in DOMAIN vals THEN Remove(vals, id) ELSE vals,
                   "none", {}, FALSE)

remove_gauge(reg, vals, name, id) ==
    RemoveValue(UnregisterAll(reg, GaugesToRemove(reg, FullName(name), id)), vals, id)

\* the loop of gauge() over named_values.items(), from index idx on
\* the result r of the loop so far, joined with that of one more call c
JoinResult(r, c) ==
    PubResult(c.registry, c.values, c.raised,
              r.published \cup c.published, r.warned \/ c.warned)

\* the loop of gauge() over named_values.items(), from index idx on; an
\* exception of _create_or_update_gauge ends it
RECURSIVE GaugeNamed(_, _, _, _, _, _, _)
GaugeNamed(r, model_name, id, request, named_values, idx, full_metric_name) ==
    IF idx >= Len(named_values) \/ r.raised # "none" THEN r
    ELSE GaugeNamed(
            JoinResult(r,
                _create_or_update_gauge(
                    r.registry,
                    Put(r.values, uuid5(Str(id) \o IdxStr(idx)), named_values[idx + 1].v),
                    full_metric_name,
                    Put(_generate_tags(model_name, id, request), "subcategory",
                        named_values[idx + 1].k),
                    uuid5(Str(id) \o IdxStr(idx)))),
            model_name, id, request, named_values, idx + 1, full_metric_name)

\* a gauge() whose last shape asks for the metric name alone
gaugeByNameAlone(reg, vals, model_name, id, request, value, named_values, metric_name) ==
    IF request.some /\ value.some
    THEN _create_or_update_gauge(reg, Put(vals, id, value.v),
                                 FullName(request.v.metric_name),
                                 _generate_tags(model_name, id, request), id)
    ELSE IF request.some /\ named_values.some
    THEN GaugeNamed(PubResult(reg, vals, "none", {}, FALSE), model_name, id, request,
                    named_values.v, 0, FullName(request.v.metric_name))
    ELSE IF metric_name.some
    THEN _create_or_update_gauge(reg, Put(vals, id, IF value.some THEN value.v ELSE 0),
                                 FullName(metric_name.v),
                                 _generate_tags(model_name, id, None), id)
    ELSE PubResult(reg, vals, "none", {}, FALSE)

gauge(reg, vals, model_name, id, request, value, named_values, metric_name) ==
    IF request.some /\ value.some
    THEN _create_or_update_gauge(reg, Put(vals, id, value.v),
                                 FullName(request.v.metric_name),
                                 _generate_tags(model_name, id, request), id)
    ELSE IF request.some /\ named_values.some
    THEN GaugeNamed(PubResult(reg, vals, "none", {}, FALSE), model_name, id, request,
                    named_values.v, 0, FullName(request.v.metric_name))
    ELSE IF metric_name.some /\ value.some
    THEN _create_or_update_gauge(reg, Put(vals, id, value.v),
                                 FullName(metric_name.v),
                                 _generate_tags(model_name, id, None), id)
    ELSE PubResult(reg, vals, "none", {}, FALSE)

----------------------------------------------------------------------------
(* MetricValueCarrier *)

\* float(v) of an int or a float v: the float of the same value. The numbers
\* of the model are integers far below 2^53, which a float holds exactly.
Float(v) == v

\* a constructor that marks every carrier single
MetricValueCarrierAllSingle(value_or_named_values) ==
    IF value_or_named_values.isnum
    THEN [value |-> Some(Float(value_or_named_values.v)), named_values |-> None,
          single |-> TRUE]
    ELSE [value |-> Some(0), named_values |-> Some(value_or_named_values.v),
          single |-> TRUE]

\* the argument is a number (isnum) or a name -> value mapping (a dict, as
\* the sequence of its items); the mapping is kept as it is, without a copy
MetricValueCarrier(value_or_named_values) ==
    IF value_or_named_values.isnum
    THEN [value |-> Some(Float(value_or_named_values.v)), named_values |-> None,
          single |-> TRUE]
    ELSE [value |-> None, named_values |-> Some(value_or_named_values.v), single |-> FALSE]

is_single(carrier_) == carrier_.single

\* the error the accessors raise: the InvalidAccessError of the error
\* taxonomy is a ValueError in this code
InvalidAccessError == "ValueError"

\* an accessor that hands out the field without looking at the variant
get_valueUnchecked(carrier_) ==
    [raised |-> "none", v |-> IF carrier_.value.some THEN carrier_.value.v ELSE 0]

get_value(carrier_) ==
    IF carrier_.single THEN [raised |-> "none", v |-> carrier_.value.v]
    ELSE [raised |-> InvalidAccessError, v |-> 0]

get_named_values(carrier_) ==
    IF ~carrier_.single THEN [raised |-> "none", v |-> carrier_.named_values.v]
    ELSE [raised |-> InvalidAccessError, v |-> <<>>]

----------------------------------------------------------------------------
(* MetricsDirectory: the calculators *)

\* the sub-keys of a multi-valued result, in insertion order
NamedKeys == <<"a", "b">>

\* get_calculator(metric_name): the kind of calculator, "none" if there is none
get_calculator(metric_name) ==
    CASE metric_name = "SPD" -> "single"
      [] metric_name = "DIR" -> "named"
      [] OTHER -> "none"

\* calculator(batch, request): the result depends on the rows it is given
calculator(kind, batch, request) ==
    IF kind = "single"
    THEN MetricValueCarrier([isnum |-> TRUE, v |-> Len(batch)])
    ELSE MetricValueCarrier([isnum |-> FALSE,
            v |-> [i \in 1..Len(NamedKeys) |-> [k |-> NamedKeys[i], v |-> Len(batch) + i - 1]]])

----------------------------------------------------------------------------
(* DataSource: ds = [known_models, stored, recorded] *)

\* the rows storage holds for a model, oldest first; the last row of m2 is
\* synthetic (carries the unlabeled tag)
StorageRows(model_id) ==
    [i \in 1..MaxRows |->
        [row |-> i, unlabeled |-> (model_id = "m2" /\ i = MaxRows)]]

\* The scheduler is handed its data source (the data_source argument of
\* __init__). add_model_to_known, which get_verified_models calls on each
\* verified model, is defined nowhere in the sources; it is taken to add the
\* model to known_models, where the model already is.

\* has_metadata: get_metadata succeeds for the models storage holds
has_metadata(d, model_id) == model_id \in d.stored

get_verified_models(d) ==
    SelectSeq(d.known_models, LAMBDA m : has_metadata(d, m))

get_num_observations(d, model_id) == Len(StorageRows(model_id))

has_recorded_inferences(d, model_id) == model_id \in d.recorded

get_dataframe_with_batch_size(d, model_id, batch_size) ==
    LET rows == StorageRows(model_id)
        available_rows == Len(rows)
        start_row == IF available_rows - batch_size > 0
                     THEN available_rows - batch_size ELSE 0
        n_rows == Min(batch_size, available_rows)
    IN SubSeq(rows, start_row + 1, start_row + n_rows)

\* the rows of the batch that do not carry the unlabeled tag; the tag column
\* exists once inferences are recorded
get_organic_dataframe(d, model_id, batch_size) ==
    LET df == get_dataframe_with_batch_size(d, model_id, batch_size)
    IN IF model_id \in d.recorded
       THEN SelectSeq(df, LAMBDA r : ~r.unlabeled)
       ELSE df

----------------------------------------------------------------------------
(* RequestReconciler *)

\* reconcile(request, data_source): get_metadata raises for a model storage
\* does not hold; the error is logged and raised again
reconcile(request, d) ==
    IF has_metadata(d, request.model_id) THEN "none" ELSE "Exception"

----------------------------------------------------------------------------
(* The request table: a sequence of buckets [metric, entries] in insertion  *)
(* order, entries a sequence of [id, request] in insertion order            *)

BucketIndex(reqs, metric_name) ==
    IF \E i \in 1..Len(reqs) : reqs[i].metric = metric_name
    THEN CHOOSE i \in 1..Len(reqs) : reqs[i].metric = metric_name
    ELSE 0

EntryIndex(entries, id) ==
    IF \E i \in 1..Len(entries) : entries[i].id = id
    THEN CHOOSE i \in 1..Len(entries) : entries[i].id = id
    ELSE 0

\* d[id] = request on an ordered dict: a present key keeps its place
DictSet(entries, id, request) ==
    IF EntryIndex(entries, id) # 0
    THEN [entries EXCEPT ![EntryIndex(entries, id)].request = request]
    ELSE Append(entries, [id |-> id, request |-> request])

\* del d[id]
DictDel(entries, id) ==
    SelectSeq(entries, LAMBDA e : e.id # id)

\* d.update(e) on ordered dicts
RECURSIVE DictUpdate(_, _)
DictUpdate(entries, more) ==
    IF more = <<>> THEN entries
    ELSE DictUpdate(DictSet(entries, Head(more).id, Head(more).request), Tail(more))

get_requests(reqs, metric_name) ==
    IF BucketIndex(reqs, metric_name) # 0
    THEN reqs[BucketIndex(reqs, metric_name)].entries
    ELSE <<>>

\* the loop of get_all_requests_flat over self.requests.values(), from bucket i on
RECURSIVE FlatFrom(_, _, _)
FlatFrom(reqs, i, result) ==
    IF i > Len(reqs) THEN result
    ELSE FlatFrom(reqs, i + 1, DictUpdate(result, reqs[i].entries))

get_all_requests_flat(reqs) == FlatFrom(reqs, 1, <<>>)

\* a has_requests that asks whether the table holds a bucket
has_requestsAnyBucket(reqs) == reqs # <<>>

has_requests(reqs) == \E i \in 1..Len(reqs) : reqs[i].entries # <<>>

get_model_ids(reqs) ==
    LET flat == get_all_requests_flat(reqs)
    IN {flat[i].request.model_id : i \in 1..Len(flat)}

\* lines 175-176 of register: the bucket is created if absent
EnsureBucket(reqs, metric_name) ==
    IF BucketIndex(reqs, metric_name) = 0
    THEN Append(reqs, [metric |-> metric_name, entries |-> <<>>])
    ELSE reqs

\* the insertion made before the reconciliation is looked at
InsertThenReconcile(reqs1, d, metric_name, id, request) ==
    [requests |-> [reqs1 EXCEPT ![BucketIndex(reqs1, metric_name)].entries =
                        DictSet(@, id, request)],
     raised |-> reconcile(request, d)]

\* lines 180-182 of register on the table reqs1 that holds the bucket
ReconcileAndInsert(reqs1, d, metric_name, id, request) ==
    IF reconcile(request, d) # "none"
    THEN [requests |-> reqs1, raised |-> reconcile(request, d)]
    ELSE [requests |-> [reqs1 EXCEPT ![BucketIndex(reqs1, metric_name)].entries =
                            DictSet(@, id, request)],
          raised |-> "none"]

\* register(metric_name, id, request): the table afterwards and what it raised
register(reqs, d, metric_name, id, request) ==
    ReconcileAndInsert(EnsureBucket(reqs, metric_name), d, metric_name, id, request)

\* a delete that leaves the table alone
DeleteEntryKept(reqs, metric_name, id) == reqs

\* lines 187-189 of delete: the entry is removed if present
DeleteEntry(reqs, metric_name, id) ==
    LET b == BucketIndex(reqs, metric_name)
    IN IF b # 0 /\ EntryIndex(reqs[b].entries, id) # 0
       THEN [reqs EXCEPT ![b].entries = DictDel(@, id)]
       ELSE reqs

----------------------------------------------------------------------------
(* PrometheusScheduler.calculate_manual *)

\* SERVICE_BATCH_SIZE, the default of max()
ServiceBatchSize == 100

RECURSIVE MaxOf(_, _)
MaxOf(seq, default) ==
    IF seq = <<>> THEN default
    ELSE LET rest == MaxOf(Tail(seq), Head(seq))
         IN IF Head(seq) >= rest THEN Head(seq) ELSE rest

\* A pass works on ps: the registry, the value map and the skip-log memory,
\* what was raised so far, and what the pass did: the messages its logger
\* wrote, the fetches from the data source, the calculator calls and the
\* series it set.
PassState(reg, vals, skip) ==
    [registry |-> reg, values |-> vals, has_logged |-> skip, raised |-> "none",
     logged |-> {}, fetches |-> <<>>, calls |-> <<>>, published |-> {}]

\* ps after a call of the publisher that yielded r
AfterGauge(ps, r) ==
    [ps EXCEPT !.registry = r.registry, !.values = r.values, !.raised = r.raised,
               !.published = @ \cup r.published]

\* lines 148-163: the calculator is called on the batch and its value published
Publish(ps, model_id, req_id, request, value) ==
    AfterGauge(ps,
        IF is_single(value)
        THEN gauge(ps.registry, ps.values, model_id, req_id,
                   Some(request), Some(get_value(value).v), None, None)
        ELSE gauge(ps.registry, ps.values, model_id, req_id,
                   Some(request), None, Some(get_named_values(value).v), None))

\* lines 139-165: the body of the loop for one request
RequestStep(ps, model_id, req_id, request, batch) ==
    IF get_calculator(request.metric_name) # "none"
    THEN Publish([ps EXCEPT !.calls = Append(@,
                        [id |-> req_id, model |-> model_id, request |-> request,
                         batch |-> batch])],
                 model_id, req_id, request,
                 calculator(get_calculator(request.metric_name), batch, request))
    ELSE [ps EXCEPT !.logged = @ \cup
                {<<"warning", "No calculator found", request.metric_name>>}]

\* line 138: the loop over requests_for_model, from index i on
RECURSIVE RequestLoop(_, _, _, _, _)
RequestLoop(ps, model_id, requests_for_model, df, i) ==
    IF i > Len(requests_for_model) \/ ps.raised # "none" THEN ps
    ELSE RequestLoop(
            RequestStep(ps, model_id, requests_for_model[i].id,
                        requests_for_model[i].request,
                        DfTail(df, Min(requests_for_model[i].request.batch_size, Len(df)))),
            model_id, requests_for_model, df, i + 1)

\* lines 124-127: the requests of the model
RequestsForModel(reqs, model_id) ==
    SelectSeq(get_all_requests_flat(reqs), LAMBDA e : e.request.model_id = model_id)

\* lines 130-133
MaxBatchSize(requests_for_model) ==
    MaxOf([i \in 1..Len(requests_for_model) |-> requests_for_model[i].request.batch_size],
          ServiceBatchSize)

\* line 136 and the loop after it: the batch is fetched, or the fetch raises
Fetch(ps, d, model_id, requests_for_model, max_batch_size, dsDown) ==
    IF dsDown
    THEN [ps EXCEPT !.raised = "DataframeCreateException",
                    !.fetches = Append(@, [model |-> model_id,
                                    batch_size |-> max_batch_size, df |-> <<>>])]
    ELSE RequestLoop(
            [ps EXCEPT !.fetches = Append(@, [model |-> model_id,
                    batch_size |-> max_batch_size,
                    df |-> get_organic_dataframe(d, model_id, max_batch_size)])],
            model_id, requests_for_model,
            get_organic_dataframe(d, model_id, max_batch_size), 1)

\* a loop body that writes the skip message whatever the memory holds
AfterObservationsAlwaysLogs(ps1, reqs, d, model_id, requested_models, dsDown) ==
    IF ps1.raised # "none" THEN ps1
    ELSE IF ~has_recorded_inferences(d, model_id)
    THEN [ps1 EXCEPT !.logged = @ \cup {<<"info", "Skipping metric calculation", model_id>>},
                     !.has_logged = @ \cup {model_id}]
    ELSE IF has_requests(reqs) /\ model_id \in requested_models
    THEN Fetch(ps1, d, model_id, RequestsForModel(reqs, model_id),
               MaxBatchSize(RequestsForModel(reqs, model_id)), dsDown)
    ELSE ps1

\* lines 114-165: the model's loop body after MODEL_OBSERVATIONS_TOTAL, ps1
AfterObservations(ps1, reqs, d, model_id, requested_models, dsDown) ==
    IF ps1.raised # "none" THEN ps1
    ELSE IF ~has_recorded_inferences(d, model_id)
    THEN IF model_id \notin ps1.has_logged
         THEN [ps1 EXCEPT !.logged = @ \cup {<<"info", "Skipping metric calculation", model_id>>},
                          !.has_logged = @ \cup {model_id}]
         ELSE ps1
    ELSE IF has_requests(reqs) /\ model_id \in requested_models
    THEN Fetch(ps1, d, model_id, RequestsForModel(reqs, model_id),
               MaxBatchSize(RequestsForModel(reqs, model_id)), dsDown)
    ELSE ps1

\* lines 105-111: MODEL_OBSERVATIONS_TOTAL of the model is set
Observations(ps, d, model_id) ==
    AfterGauge(ps, gauge(ps.registry, ps.values, model_id, uuid5(model_id), None,
                         Some(get_num_observations(d, model_id)), None,
                         Some("MODEL_OBSERVATIONS_TOTAL")))

\* lines 105-165: the body of the loop over verified_models for one model
ModelStep(ps, reqs, d, model_id, requested_models, dsDown) ==
    AfterObservations(Observations(ps, d, model_id),
                      reqs, d, model_id, requested_models, dsDown)

\* line 104: the loop over verified_models, from index i on
RECURSIVE ModelLoop(_, _, _, _, _, _, _)
ModelLoop(ps, reqs, d, verified_models, requested_models, dsDown, i) ==
    IF i > Len(verified_models) \/ ps.raised # "none" THEN ps
    ELSE ModelLoop(ModelStep(ps, reqs, d, verified_models[i], requested_models, dsDown),
                   reqs, d, verified_models, requested_models, dsDown, i + 1)

\* an except clause that logs and swallows whatever throw_errors says
HandleErrorSwallow(ps, throw_errors) ==
    IF ps.raised = "none" THEN ps
    ELSE [ps EXCEPT !.raised = "none",
                    !.logged = @ \cup {<<"error", "Error calculating metrics", ps.raised>>}]

\* lines 167-171: what the except clause does with the error e of the pass
HandleError(ps, throw_errors) ==
    IF ps.raised = "none" THEN ps
    ELSE IF throw_errors THEN ps
    ELSE [ps EXCEPT !.raised = "none",
                    !.logged = @ \cup {<<"error", "Error calculating metrics", ps.raised>>}]

\* lines 90-100: the pass up to the loop, MODEL_COUNT_TOTAL is set
PassStart(d, reg, vals, skip) ==
    AfterGauge(PassState(reg, vals, skip),
               gauge(reg, vals, "", uuid5("model_count"), None,
                     Some(Len(get_verified_models(d))), None,
                     Some("MODEL_COUNT_TOTAL")))

\* lines 90-165: the try block
PassBody(reqs, d, reg, vals, skip, dsDown) ==
    ModelLoop(PassStart(d, reg, vals, skip),
              reqs, d, get_verified_models(d), get_model_ids(reqs), dsDown, 1)

\* the pass ps as its caller sees it: error is what the try block raised,
\* raised what calculate_manual raised
PassResult(ps, throw_errors) ==
    [registry |-> ps.registry, values |-> ps.values, has_logged |-> ps.has_logged,
     raised |-> HandleError(ps, throw_errors).raised,
     error |-> ps.raised,
     logged |-> HandleError(ps, throw_errors).logged,
     fetches |-> ps.fetches, calls |-> ps.calls, published |-> ps.published]

\* calculate_manual(throw_errors); dsDown: the data source fails to build
\* a dataframe during this pass
calculate_manual(reqs, d, reg, vals, skip, throw_errors, dsDown) ==
    PassResult(PassBody(reqs, d, reg, vals, skip, dsDown), throw_errors)

----------------------------------------------------------------------------
(* The last call *)

NoCall ==
    [op |-> "none", metric |-> "", id |-> "", request |-> Request("", "", 0),
     model |-> "", shape |-> "", value |-> 0,
     throw_errors |-> FALSE, raised |-> "none", error |-> "none", prev_error |-> "none",
     logged |-> {}, fetches |-> <<>>, calls |-> <<>>, published |-> {},
     removed |-> {}, before |-> {}, existed |-> FALSE, warned |-> FALSE,
     arg |-> [isnum |-> TRUE, v |-> 0], returned |-> None, again |-> FALSE]

----------------------------------------------------------------------------
(* Initial states *)

\* the data sources: known_models in the order the set iterates; storage
\* holds the known models, and inferences are recorded for some of them
DataSource(known_models, recorded) ==
    [known_models |-> known_models,
     stored |-> {known_models[i] : i \in 1..Len(known_models)},
     recorded |-> recorded]

DataSources ==
    { DataSource(<<"m1">>, {}), DataSource(<<"m1">>, {"m1"}),
      DataSource(<<"m2">>, {"m2"}),
      DataSource(<<"m1", "m2">>, {"m1", "m2"}), DataSource(<<"m1", "m2">>, {"m2"}),
      DataSource(<<"m2", "m1">>, {"m1"}) }

\* SERVICE_METRICS_SCHEDULE, a string, as the sequence of its characters
DefaultSchedule == <<"3", "0", "s">>

\* the periodic task: _schedule_task_running, the tasks added to
\* background_tasks, where the task is (none, loop, sleep, dead), its interval
\* and the error of its latest pass
\* no carrier is held
NoCarrier == [value |-> None, named_values |-> None, single |-> FALSE]

\* no pass is in flight. A pass in flight: its throw_errors, the state ps of
\* the try block, its locals verified_models and requested_models, the index
\* i of the model the loop is at, whether the requests of that model are
\* collected and the batch not yet fetched, and its local requests_for_model;
\* the flat view as it was at line 90, and the ids deleted by another thread
\* after the pass had collected them
NoRun ==
    [active |-> FALSE, throw_errors |-> FALSE, ps |-> PassState(EmptyDict, EmptyDict, {}),
     verified_models |-> <<>>, requested_models |-> {}, i |-> 0,
     collected |-> FALSE, requests_for_model |-> <<>>,
     at_start |-> <<>>, deleted_in_flight |-> {}]

NoTask ==
    [running |-> FALSE, added |-> 0, pc |-> "none", interval |-> 0,
     schedule |-> DefaultSchedule, error |-> "none"]

InitScheduler ==
    /\ requests = <<>>
    /\ has_logged = {}
    /\ values = EmptyDict
    /\ nRegistered = 0
    /\ deleted = {}
    /\ last = NoCall
    /\ carrier = NoCarrier
    /\ run = NoRun

Init ==
    /\ InitScheduler
    /\ registry = EmptyDict
    /\ ds \in DataSources
    /\ task = NoTask

----------------------------------------------------------------------------
(* Actions of the scheduler *)

\* the state after register returned or raised r
Registered(metric_name, id, request, r) ==
    /\ requests' = r.requests
    /\ nRegistered' = IF r.raised = "none" THEN nRegistered + 1 ELSE nRegistered
    /\ deleted' = IF r.raised = "none"
                  THEN {p \in deleted : p[2] # id}
                  ELSE deleted
    /\ last' = [NoCall EXCEPT !.op = "register", !.metric = metric_name, !.id = id,
                              !.request = request, !.raised = r.raised,
                              !.logged = IF r.raised = "none" THEN {}
                                         ELSE {<<"error", "Error reconciling request", r.raised>>}]

Register(metric_name, id, request) ==
    /\ nRegistered < MaxRegistrations
    /\ Registered(metric_name, id, request,
                  register(requests, ds, metric_name, id, request))
    /\ UNCHANGED <<has_logged, registry, values, ds, task, carrier, run>>

\* the state after delete: the table is reqs1, remove_gauge yielded r
Deleted(metric_name, id, reqs1, r, existed) ==
    /\ requests' = reqs1
    /\ registry' = r.registry
    /\ values' = r.values
    /\ deleted' = IF r.raised = "none" /\ existed
                  THEN deleted \cup {<<metric_name, id>>}
                  ELSE deleted
    /\ last' = [NoCall EXCEPT !.op = "delete", !.metric = metric_name, !.id = id,
                              !.raised = r.raised,
                              !.existed = existed,
                              !.before = SeriesOf(registry, FullName(metric_name), Str(id)),
                              !.removed = Series(registry) \ Series(r.registry)]

Delete(metric_name, id) ==
    /\ Deleted(metric_name, id,
               DeleteEntry(requests, metric_name, id),
               remove_gauge(registry, values, metric_name, id),
               EntryIndex(get_requests(requests, metric_name), id) # 0)
    /\ UNCHANGED <<has_logged, ds, nRegistered, task, carrier, run>>

\* the state after a pass that yielded r
Calculated(throw_errors, r) ==
    /\ registry' = r.registry
    /\ values' = r.values
    /\ has_logged' = r.has_logged
    /\ last' = [NoCall EXCEPT !.op = "calculate_manual",
                              !.throw_errors = throw_errors,
                              !.raised = r.raised, !.error = r.error,
                              !.logged = r.logged, !.fetches = r.fetches,
                              !.calls = r.calls, !.published = r.published]

CalculateManual(throw_errors, dsDown) ==
    /\ Calculated(throw_errors,
                  calculate_manual(requests, ds, registry, values, has_logged,
                                   throw_errors, dsDown))
    /\ UNCHANGED <<requests, ds, nRegistered, deleted, task, carrier, run>>

\* the requests callers register: under the request's own metric name
Requests ==
    {Request(m, "SPD", b) : m \in Models, b \in 1..MaxBatch}
    \cup {Request(m, "DIR", MaxBatch) : m \in Models}
    \cup {Request("m1", "XYZ", 1)}

Next ==
    \/ \E id \in Ids, request \in Requests : Register(request.metric_name, id, request)
    \/ \E metric_name \in Metrics, id \in Ids : Delete(metric_name, id)
    \/ \E throw_errors \in BOOLEAN, dsDown \in BOOLEAN : CalculateManual(throw_errors, dsDown)

Spec == Init /\ [][Next]_vars

----------------------------------------------------------------------------
(* The publisher on its own: a PrometheusPublisher built on a registry that  *)
(* other code of the process shares (the registry argument of __init__)     *)

PubTags(model_id, id) ==
    _generate_tags(model_id, id, Some(Request(model_id, "SPD", 1)))

\* the tags of a sub-series of a DIR request
PubSubTags(model_id, id, key) ==
    Put(_generate_tags(model_id, id, Some(Request(model_id, "DIR", 1))),
        "subcategory", key)

\* what the registry holds when the publisher is built: nothing; a gauge
\* under the SPD name with one series for each of two requests of model m2;
\* a Counter under the DIR name; a gauge under the DIR name with two
\* sub-series of one request of model m2
RegistryInputs ==
    { EmptyDict,
      SetLabels(SetLabels(
          RegistryRegister(EmptyDict,
                           NewGauge(FullName("DIR"), DOMAIN PubSubTags("m2", "r1", "a"))),
          FullName("DIR"), PubSubTags("m2", "r1", "a"), 1),
          FullName("DIR"), PubSubTags("m2", "r1", "b"), 1),
      SetLabels(SetLabels(
          RegistryRegister(EmptyDict, NewGauge(FullName("SPD"), DOMAIN PubTags("m2", "r1"))),
          FullName("SPD"), PubTags("m2", "r1"), 1),
          FullName("SPD"), PubTags("m2", "r2"), 1),
      RegistryRegister(EmptyDict, NewCounter(FullName("DIR"))) }

InitPub ==
    /\ InitScheduler
    /\ registry \in RegistryInputs
    /\ ds = DataSource(<<"m1">>, {"m1"})
    /\ task = NoTask

\* the values and named values callers publish
PubValues == {1, 2}
PubNamedValues == [i \in 1..Len(NamedKeys) |-> [k |-> NamedKeys[i], v |-> i]]

\* the three shapes of gauge(), and a call that has none of them
GaugeCalls ==
    {[shape |-> "request_value", model_name |-> "m1", id |-> id,
      request |-> Some(Request("m1", "SPD", 1)), value |-> Some(v),
      named_values |-> None, metric_name |-> None] :
        id \in Ids, v \in PubValues}
    \cup
    {[shape |-> "request_named", model_name |-> "m1", id |-> "r1",
      request |-> Some(Request("m1", "DIR", 1)), value |-> None,
      named_values |-> Some(PubNamedValues), metric_name |-> None]}
    \cup
    {[shape |-> "metric_value", model_name |-> "", id |-> uuid5("model_count"),
      request |-> None, value |-> Some(1),
      named_values |-> None, metric_name |-> Some("MODEL_COUNT_TOTAL")],
     [shape |-> "metric_value", model_name |-> "m1", id |-> uuid5("m1"),
      request |-> None, value |-> Some(MaxRows),
      named_values |-> None, metric_name |-> Some("MODEL_OBSERVATIONS_TOTAL")]}
    \cup
    {[shape |-> "no_shape", model_name |-> "m1", id |-> "r1",
      request |-> r, value |-> None,
      named_values |-> None, metric_name |-> Some("SPD")] :
        r \in {None, Some(Request("m1", "SPD", 1))}}
    \cup
    {[shape |-> "no_shape", model_name |-> "m1", id |-> "r1",
      request |-> None, value |-> Some(1),
      named_values |-> None, metric_name |-> None],
     [shape |-> "no_shape", model_name |-> "m1", id |-> "r1",
      request |-> None, value |-> None,
      named_values |-> Some(PubNamedValues), metric_name |-> Some("DIR")]}

\* the metric name a call of gauge() publishes under
CallMetric(c) ==
    IF c.request.some THEN c.request.v.metric_name
    ELSE IF c.metric_name.some THEN c.metric_name.v
    ELSE ""

\* the state after gauge() yielded r
Gauged(c, r) ==
    /\ registry' = r.registry
    /\ values' = r.values
    /\ last' = [NoCall EXCEPT !.op = "gauge", !.shape = c.shape, !.id = c.id,
                              !.model = c.model_name,
                              !.metric = CallMetric(c),
                              !.request = IF c.request.some THEN c.request.v ELSE @,
                              !.value = IF c.value.some THEN c.value.v ELSE @,
                              !.raised = r.raised, !.warned = r.warned,
                              !.published = r.published,
                              !.existed = (FullName(CallMetric(c)) \in DOMAIN registry
                                           /\ registry[FullName(CallMetric(c))].kind = "Gauge"),
                              !.before = {x \in Series(registry) :
                                            x.name = FullName(CallMetric(c))}]

PubGauge(c) ==
    /\ Gauged(c, gauge(registry, values, c.model_name, c.id, c.request, c.value,
                       c.named_values, c.metric_name))
    /\ UNCHANGED <<requests, has_logged, ds, nRegistered, deleted, task, carrier, run>>

\* the state after remove_gauge yielded r
GaugeRemoved(name, id, r) ==
    /\ registry' = r.registry
    /\ values' = r.values
    /\ last' = [NoCall EXCEPT !.op = "remove_gauge", !.metric = name, !.id = id,
                              !.raised = r.raised,
                              !.existed = (id \in DOMAIN values),
                              !.again = (/\ last.op = "remove_gauge"
                                         /\ last.metric = name /\ last.id = id
                                         /\ last.raised = "none"),
                              !.before = SeriesOf(registry, FullName(name), Str(id)),
                              !.removed = Series(registry) \ Series(r.registry)]

PubRemoveGauge(name, id) ==
    /\ GaugeRemoved(name, id, remove_gauge(registry, values, name, id))
    /\ UNCHANGED <<requests, has_logged, ds, nRegistered, deleted, task, carrier, run>>

NextPub ==
    \/ \E c \in GaugeCalls : PubGauge(c)
    \/ \E name \in {"SPD", "DIR"}, id \in Ids : PubRemoveGauge(name, id)

SpecPub == InitPub /\ [][NextPub]_vars

----------------------------------------------------------------------------
(* The periodic task *)

Digits == <<"0", "1", "2", "3", "4", "5", "6", "7", "8", "9">>

IsDigit(c) == \E i \in 1..Len(Digits) : Digits[i] = c

DigitValue(c) == (CHOOSE i \in 1..Len(Digits) : Digits[i] = c) - 1

\* int(s) of a string of decimal digits; ValueError otherwise
RECURSIVE IntOf(_, _)
IntOf(s, acc) ==
    IF s = <<>> THEN acc
    ELSE IntOf(Tail(s), 10 * acc + DigitValue(Head(s)))

ParseInt(s) ==
    IF s # <<>> /\ \A i \in 1..Len(s) : IsDigit(s[i])
    THEN [raised |-> "none", v |-> IntOf(s, 0)]
    ELSE [raised |-> "ValueError", v |-> 0]

\* the interval that is slept when no suffix is recognised
DefaultInterval == 30

\* lines 44-52: the interval in seconds of a schedule string
ParseInterval(metrics_schedule) ==
    LET n == Len(metrics_schedule)
        prefix == SubSeq(metrics_schedule, 1, n - 1)
    IN IF n > 0 /\ metrics_schedule[n] = "s"
       THEN ParseInt(prefix)
       ELSE IF n > 0 /\ metrics_schedule[n] = "m"
       THEN [raised |-> ParseInt(prefix).raised, v |-> ParseInt(prefix).v * 60]
       ELSE [raised |-> "none", v |-> DefaultInterval]

\* the schedule strings of the configuration
Schedules ==
    { DefaultSchedule, <<"2", "m">>, <<"1", "h">>, <<"x", "s">> }

InitPeriodic ==
    /\ InitScheduler
    /\ registry = EmptyDict
    /\ ds \in DataSources
    /\ task \in {[NoTask EXCEPT !.schedule = sch] : sch \in Schedules}
    /\ carrier = NoCarrier
    /\ run = NoRun

\* a schedule_calculation that does not look at the flag
ScheduleCalculationAlways ==
    /\ task' = [task EXCEPT !.added = @ + 1, !.running = TRUE]
    /\ last' = [NoCall EXCEPT !.op = "schedule_calculation",
                    !.logged = {<<"info", "Scheduled metric calculation", "">>}]
    /\ UNCHANGED <<requests, has_logged, registry, values, ds, nRegistered, deleted, carrier, run>>

\* schedule_calculation(background_tasks)
ScheduleCalculation ==
    /\ IF ~task.running
       THEN /\ task' = [task EXCEPT !.added = @ + 1, !.running = TRUE]
            /\ last' = [NoCall EXCEPT !.op = "schedule_calculation",
                            !.logged = {<<"info", "Scheduled metric calculation", "">>}]
       ELSE /\ task' = task
            /\ last' = [NoCall EXCEPT !.op = "schedule_calculation"]
    /\ UNCHANGED <<requests, has_logged, registry, values, ds, nRegistered, deleted, carrier, run>>

\* lines 44-54: the added task starts and parses its interval; int() of a
\* bad prefix ends the task
PeriodicStart ==
    /\ task.added > 0
    /\ task.pc = "none"
    /\ LET parsed == ParseInterval(task.schedule)
       IN task' = IF parsed.raised # "none"
                  THEN [task EXCEPT !.pc = "dead"]
                  ELSE [task EXCEPT !.pc = "loop", !.interval = parsed.v]
    /\ UNCHANGED <<requests, has_logged, registry, values, ds, nRegistered, deleted, last, carrier, run>>

\* line 59: await self.calculate_manual(False); calculate_manual is not a
\* coroutine, so the call runs the pass and the await of its result, None,
\* raises TypeError
AwaitCalculateManual(r) ==
    IF r.raised # "none" THEN r.raised ELSE "TypeError"

\* a loop that an error ends
PeriodicHandlerStops(err) ==
    [pc |-> IF err # "none" THEN "dead" ELSE "sleep",
     logged |-> IF err # "none" THEN {<<"error", "Error in scheduler task", err>>} ELSE {}]

\* lines 58-64: the except clause of the loop, then the sleep
PeriodicHandler(err) ==
    [pc |-> "sleep",
     logged |-> IF err # "none" THEN {<<"error", "Error in scheduler task", err>>} ELSE {}]

\* the state after the pass of the task yielded r and the handler h
PeriodicPassed(r, h) ==
    /\ registry' = r.registry
    /\ values' = r.values
    /\ has_logged' = r.has_logged
    /\ task' = [task EXCEPT !.pc = h.pc, !.error = r.error]
    /\ last' = [NoCall EXCEPT !.op = "periodic_pass",
                              !.raised = "none", !.error = r.error,
                              !.prev_error = task.error,
                              !.logged = r.logged \cup h.logged,
                              !.fetches = r.fetches,
                              !.calls = r.calls, !.published = r.published]

\* the handler after a pass that yielded r
Handled(r) == PeriodicPassed(r, PeriodicHandler(AwaitCalculateManual(r)))

PeriodicPass(dsDown) ==
    /\ task.pc = "loop"
    /\ Handled(calculate_manual(requests, ds, registry, values, has_logged, FALSE, dsDown))
    /\ UNCHANGED <<requests, ds, nRegistered, deleted, carrier, run>>

PeriodicRun == \E dsDown \in BOOLEAN : PeriodicPass(dsDown)

\* line 64: asyncio.sleep(interval) returns
PeriodicWake ==
    /\ task.pc = "sleep"
    /\ task' = [task EXCEPT !.pc = "loop"]
    /\ UNCHANGED <<requests, has_logged, registry, values, ds, nRegistered, deleted, last, carrier, run>>

\* the requests registered while the task runs
PeriodicRequests == {Request("m1", "SPD", 1), Request("m2", "DIR", MaxBatch)}

NextPeriodic ==
    \/ ScheduleCalculation
    \/ PeriodicStart
    \/ PeriodicRun
    \/ PeriodicWake
    \/ \E request \in PeriodicRequests : Register(request.metric_name, "r1", request)
    \/ \E metric_name \in {"SPD"} : Delete(metric_name, "r1")

\* calculate_manual is a plain function that returns or raises from every
\* state, so the task does not stay at the top of its loop for ever. This is
\* WF_vars(PeriodicRun) with ENABLED <<PeriodicRun>>_vars written out: the
\* step exists exactly when task.pc = "loop", and it changes task.pc.
PassEnds == []<>(task.pc # "loop")

\* the event loop runs the added task, a pass ends, and a sleep ends after
\* its interval
SpecPeriodic ==
    /\ InitPeriodic
    /\ [][NextPeriodic]_vars
    /\ WF_vars(PeriodicStart)
    /\ WF_vars(PeriodicWake)
    /\ PassEnds

----------------------------------------------------------------------------
(* Passes over a data source that changes: storage comes to hold a known    *)
(* model, and callers delete the gauges of the two totals                    *)

\* the data sources: storage may not hold a known model yet
PassDataSources ==
    { [known_models |-> k, stored |-> st, recorded |-> rec] :
        k \in {<<"m1">>, <<"m1", "m2">>}, st \in SUBSET Models, rec \in SUBSET Models }

\* the names and ids the scheduler publishes the totals under
TotalGauges ==
    {<<"MODEL_COUNT_TOTAL", uuid5("model_count")>>}
    \cup {<<"MODEL_OBSERVATIONS_TOTAL", uuid5(m)>> : m \in Models}

\* storage comes to hold the data of a known model: get_metadata succeeds
\* for it from now on
ModelStored(model_id) ==
    /\ model_id \notin ds.stored
    /\ ds' = [ds EXCEPT !.stored = @ \cup {model_id}]
    /\ last' = [NoCall EXCEPT !.op = "model_stored", !.model = model_id]
    /\ UNCHANGED <<requests, has_logged, registry, values, nRegistered, deleted, task,
                   carrier, run>>

InitPasses ==
    /\ InitScheduler
    /\ registry = EmptyDict
    /\ ds \in {d \in PassDataSources :
                 d.stored \subseteq {d.known_models[i] : i \in 1..Len(d.known_models)}
                 /\ d.recorded \subseteq d.stored}
    /\ task = NoTask

NextPasses ==
    \/ \E throw_errors \in BOOLEAN : CalculateManual(throw_errors, FALSE)
    \/ \E g \in TotalGauges : Delete(g[1], g[2])
    \/ \E i \in 1..Len(ds.known_models) : ModelStored(ds.known_models[i])

SpecPasses == InitPasses /\ [][NextPasses]_vars

----------------------------------------------------------------------------
(* A pass on one thread, register and delete on others. The table is a plain *)
(* dict and no lock is held, so the callers' calls fall between the          *)
(* statements of the pass: here before the loop, between its iterations, and *)
(* between the collection of a model's requests and the fetch of its batch.  *)

\* ps of the pass in flight, on the registry, value map and memory as they are
LivePass == [run.ps EXCEPT !.registry = registry, !.values = values,
                           !.has_logged = has_logged]

\* the state after the pass in flight went on to ps
PassMoved(ps) ==
    /\ registry' = ps.registry
    /\ values' = ps.values
    /\ has_logged' = ps.has_logged

\* lines 90-102: calculate_manual(throw_errors) starts and takes requested_models
PassBegin(throw_errors) ==
    /\ ~run.active
    /\ PassMoved(PassStart(ds, registry, values, has_logged))
    /\ run' = [NoRun EXCEPT !.active = TRUE, !.throw_errors = throw_errors,
                            !.ps = PassStart(ds, registry, values, has_logged),
                            !.verified_models = get_verified_models(ds),
                            !.requested_models = get_model_ids(requests), !.i = 1,
                            !.at_start = get_all_requests_flat(requests)]
    /\ last' = [NoCall EXCEPT !.op = "pass_begin", !.throw_errors = throw_errors]
    /\ UNCHANGED <<requests, ds, nRegistered, deleted, task, carrier>>

\* lines 122-123 after MODEL_OBSERVATIONS_TOTAL left the pass at ps1: the
\* iteration goes on to collect the requests of the model and fetch a batch
Collects(ps1, model_id) ==
    /\ ps1.raised = "none"
    /\ has_recorded_inferences(ds, model_id)
    /\ has_requests(requests)
    /\ model_id \in run.requested_models

\* the state after lines 104-127 of an iteration left the pass at ps1
Collected(ps1, model_id) ==
    IF Collects(ps1, model_id)
    THEN /\ PassMoved(ps1)
         /\ run' = [run EXCEPT !.ps = ps1, !.collected = TRUE,
                               !.requests_for_model = RequestsForModel(requests, model_id)]
    ELSE /\ PassMoved(AfterObservations(ps1, requests, ds, model_id,
                                        run.requested_models, FALSE))
         /\ run' = [run EXCEPT !.i = @ + 1,
                               !.ps = AfterObservations(ps1, requests, ds, model_id,
                                                        run.requested_models, FALSE)]

\* lines 104-127: an iteration of the loop over verified_models, up to the
\* list of the requests of the model
PassCollect ==
    /\ run.active
    /\ ~run.collected
    /\ run.i <= Len(run.verified_models)
    /\ run.ps.raised = "none"
    /\ Collected(Observations(LivePass, ds, run.verified_models[run.i]),
                 run.verified_models[run.i])
    /\ last' = [NoCall EXCEPT !.op = "pass_collect", !.model = run.verified_models[run.i]]
    /\ UNCHANGED <<requests, ds, nRegistered, deleted, task, carrier>>

\* the state after lines 130-165 of an iteration left the pass at ps
Evaluated(ps) ==
    /\ PassMoved(ps)
    /\ run' = [run EXCEPT !.i = @ + 1, !.ps = ps, !.collected = FALSE,
                          !.requests_for_model = <<>>]

\* lines 130-165: the batch is fetched and the collected requests evaluated
PassEvaluate ==
    /\ run.active
    /\ run.collected
    /\ Evaluated(Fetch(LivePass, ds, run.verified_models[run.i], run.requests_for_model,
                       MaxBatchSize(run.requests_for_model), FALSE))
    /\ last' = [NoCall EXCEPT !.op = "pass_evaluate", !.model = run.verified_models[run.i]]
    /\ UNCHANGED <<requests, ds, nRegistered, deleted, task, carrier>>

\* lines 167-171: the loop is over or the try block raised; the call returns
PassEnd ==
    /\ run.active
    /\ ~run.collected
    /\ run.i > Len(run.verified_models) \/ run.ps.raised # "none"
    /\ Calculated(run.throw_errors, PassResult(LivePass, run.throw_errors))
    /\ run' = [run EXCEPT !.active = FALSE]
    /\ UNCHANGED <<requests, ds, nRegistered, deleted, task, carrier>>

\* delete(metric_name, id) on another thread; it is noted when the pass in
\* flight holds the id in its requests_for_model
ConcDelete(metric_name, id) ==
    /\ Deleted(metric_name, id,
               DeleteEntry(requests, metric_name, id),
               remove_gauge(registry, values, metric_name, id),
               EntryIndex(get_requests(requests, metric_name), id) # 0)
    /\ run' = IF /\ run.active
                 /\ \E j \in 1..Len(run.requests_for_model) :
                        run.requests_for_model[j].id = id
              THEN [run EXCEPT !.deleted_in_flight = @ \cup {id}]
              ELSE run
    /\ UNCHANGED <<has_logged, ds, nRegistered, task, carrier>>

\* the requests callers register while passes run
ConcRequests ==
    {Request("m1", "SPD", 1), Request("m1", "DIR", MaxBatch), Request("m2", "SPD", 1)}

InitConc ==
    /\ InitScheduler
    /\ registry = EmptyDict
    /\ ds \in {DataSource(<<"m1">>, {"m1"}), DataSource(<<"m1", "m2">>, {"m1", "m2"})}
    /\ task = NoTask

NextConc ==
    \/ \E throw_errors \in BOOLEAN : PassBegin(throw_errors)
    \/ PassCollect
    \/ PassEvaluate
    \/ PassEnd
    \/ \E id \in Ids, request \in ConcRequests : Register(request.metric_name, id, request)
    \/ \E id \in Ids : ConcDelete("SPD", id)

SpecConc == InitConc /\ [][NextConc]_vars

----------------------------------------------------------------------------
(* The value carrier on its own: a caller builds carriers and reads them    *)

\* the values of the carriers callers build
CarrierValues == 0..MaxValue

\* the mappings: none, one or two named values
CarrierMappings ==
    {<<>>}
    \cup {<<[k |-> k, v |-> v]>> : k \in {"a", "b"}, v \in CarrierValues}
    \cup {<<[k |-> "a", v |-> v], [k |-> "b", v |-> w]>> : v, w \in CarrierValues}

CarrierScalars == {[isnum |-> TRUE, v |-> v] : v \in CarrierValues}

CarrierNamed == {[isnum |-> FALSE, v |-> m] : m \in CarrierMappings}

\* carrier = MetricValueCarrier(value_or_named_values); last.arg stays the
\* argument the carrier in hand was built from
Construct(value_or_named_values) ==
    /\ carrier' = MetricValueCarrier(value_or_named_values)
    /\ last' = [NoCall EXCEPT !.op = "MetricValueCarrier", !.arg = value_or_named_values]
    /\ UNCHANGED <<requests, has_logged, registry, values, ds, nRegistered, deleted, task, run>>

\* the state after an accessor returned or raised r
Accessed(op, r) ==
    /\ last' = [NoCall EXCEPT !.op = op, !.arg = last.arg, !.raised = r.raised,
                              !.returned = IF r.raised = "none" THEN Some(r.v) ELSE None]
    /\ UNCHANGED <<requests, has_logged, registry, values, ds, nRegistered, deleted, task,
                   carrier, run>>

IsSingle == Accessed("is_single", [raised |-> "none", v |-> is_single(carrier)])

GetValue == Accessed("get_value", get_value(carrier))

GetNamedValues == Accessed("get_named_values", get_named_values(carrier))

InitCarrier ==
    /\ requests = <<>>
    /\ has_logged = {}
    /\ values = EmptyDict
    /\ nRegistered = 0
    /\ deleted = {}
    /\ registry = EmptyDict
    /\ ds = DataSource(<<"m1">>, {"m1"})
    /\ task = NoTask
    /\ run = NoRun
    /\ \/ \E x \in CarrierScalars :
             /\ carrier = MetricValueCarrier(x)
             /\ last = [NoCall EXCEPT !.op = "MetricValueCarrier", !.arg = x]
       \/ \E x \in CarrierNamed :
             /\ carrier = MetricValueCarrier(x)
             /\ last = [NoCall EXCEPT !.op = "MetricValueCarrier", !.arg = x]

NextCarrier ==
    \/ \E x \in CarrierScalars : Construct(x)
    \/ \E x \in CarrierNamed : Construct(x)
    \/ IsSingle
    \/ GetValue
    \/ GetNamedValues

SpecCarrier == InitCarrier /\ [][NextCarrier]_vars

----------------------------------------------------------------------------
(* Properties *)

\* the registered entries [id, request] of all buckets
AllEntries ==
    UNION { {requests[b].entries[i] : i \in 1..Len(requests[b].entries)} :
                b \in 1..Len(requests) }

\* the series the last call set whose request label is that of the id
PublishedFor(id) ==
    {s \in last.published : "request" \in DOMAIN s.labels /\ s.labels.request = Str(id)}

\* the number of series of one gauge-set of a request
GaugeSetSize(request) ==
    IF get_calculator(request.metric_name) = "single" THEN 1 ELSE Len(NamedKeys)

\* C1: after an evaluation pass during which the data source did not fail,
\* every registered request whose model is verified and has recorded
\* inferences (and whose metric has a calculator) has exactly one gauge-set
\* among the series the pass set: one series with request = str(id) under
\* its metric's full name if the result is single, one per named key if it
\* is multi-valued.
C1_OneGaugeSetPerRequest ==
    (last.op = "calculate_manual" /\ last.error # "DataframeCreateException") =>
        \A e \in AllEntries :
            ( /\ has_metadata(ds, e.request.model_id)
              /\ has_recorded_inferences(ds, e.request.model_id)
              /\ get_calculator(e.request.metric_name) # "none" )
            => Cardinality({s \in PublishedFor(e.id) :
                                s.name = FullName(e.request.metric_name)})
                    = GaugeSetSize(e.request)

\* the label set of the last gauge(model, id, request=R, value=v) call
LastTags == _generate_tags(last.model, last.id, Some(last.request))

\* C2: a gauge(model, id, request=R, value=v2) call made when the label set
\* was already published under the metric's full name succeeds, and the
\* registry then holds exactly one series for that label set, with value v2.
C2_GaugeReused ==
    ( /\ last.op = "gauge"
      /\ last.shape = "request_value"
      /\ \E s \in last.before : s.labels = LastTags )
    => /\ last.raised = "none"
       /\ {s \in Series(registry) :
                s.name = FullName(last.metric) /\ s.labels = LastTags}
            = {[name |-> FullName(last.metric), labels |-> LastTags,
                value |-> last.value]}

RegisteredElsewhere(metric_name, id) ==
    \E b \in 1..Len(requests) :
        /\ requests[b].metric # metric_name
        /\ EntryIndex(requests[b].entries, id) # 0

\* C4 as stated: once delete(metric_name, id) has returned and the id has not
\* been registered since, no pass sets a series whose request label is str(id).
C4_NeverPublishedAfterDelete ==
    last.op = "calculate_manual" =>
        \A p \in deleted : PublishedFor(p[2]) = {}

\* C4, amended: once delete(metric_name, id) has returned and the id has not
\* been registered since, no pass sets a series whose request label is
\* str(id), unless the id is still registered under another metric name.
C4_NotPublishedUnlessRegistered ==
    last.op = "calculate_manual" =>
        \A p \in deleted :
            ~RegisteredElsewhere(p[1], p[2]) => PublishedFor(p[2]) = {}

\* a pass that evaluated a request after another id's entry was deleted
C4_Witness ==
    /\ last.op = "calculate_manual"
    /\ last.calls # <<>>
    /\ last.published # {}
    /\ \E p \in deleted : ~RegisteredElsewhere(p[1], p[2])

RegisteredBatchSizes(model_id) ==
    {e.request.batch_size : e \in {x \in AllEntries : x.request.model_id = model_id}}

\* C6: the batch size of every fetch of a pass is the maximum batch_size
\* among all requests registered for the fetched model, across all buckets.
C6_FetchesMaxBatchSize ==
    last.op = "calculate_manual" =>
        \A k \in 1..Len(last.fetches) :
            /\ last.fetches[k].batch_size \in RegisteredBatchSizes(last.fetches[k].model)
            /\ \A b \in RegisteredBatchSizes(last.fetches[k].model) :
                    b <= last.fetches[k].batch_size

\* the fetches of the last pass for the model
FetchesOf(model_id) ==
    {j \in 1..Len(last.fetches) : last.fetches[j].model = model_id}

\* batch is the trailing n rows of df
IsTrailing(batch, df, n) ==
    /\ Len(batch) = n
    /\ \A i \in 1..n : batch[i] = df[Len(df) - n + i]

\* C7: every calculator call of a pass was given the trailing
\* min(request.batch_size, fetched rows) rows of the one batch the pass
\* fetched for the request's model.
C7_CalculatorGetsTrailingRows ==
    last.op = "calculate_manual" =>
        \A k \in 1..Len(last.calls) :
            /\ Cardinality(FetchesOf(last.calls[k].model)) = 1
            /\ \A j \in FetchesOf(last.calls[k].model) :
                    IsTrailing(last.calls[k].batch, last.fetches[j].df,
                               Min(last.calls[k].request.batch_size,
                                   Len(last.fetches[j].df)))

\* a pass that fetched more rows than one of its requests asked for
C7_Witness ==
    /\ last.op = "calculate_manual"
    /\ \E k \in 1..Len(last.calls), j \in 1..Len(last.fetches) :
            /\ last.fetches[j].model = last.calls[k].model
            /\ Len(last.calls[k].batch) > 0
            /\ Len(last.calls[k].batch) < Len(last.fetches[j].df)

\* C8: a register whose reconciliation failed raised, and its request is in
\* no view of the table: not in get_requests(metric_name), not in
\* get_all_requests_flat(), its model not in get_model_ids(); and no pass
\* calls a calculator for a request that fails reconciliation.
C8_FailedRegisterNotAdded ==
    /\ (last.op = "register" /\ reconcile(last.request, ds) # "none")
       => /\ last.raised = reconcile(last.request, ds)
          /\ \A i \in 1..Len(get_requests(requests, last.metric)) :
                get_requests(requests, last.metric)[i]
                    # [id |-> last.id, request |-> last.request]
          /\ \A i \in 1..Len(get_all_requests_flat(requests)) :
                get_all_requests_flat(requests)[i]
                    # [id |-> last.id, request |-> last.request]
          /\ last.request.model_id \notin get_model_ids(requests)
    /\ last.op = "calculate_manual"
       => \A k \in 1..Len(last.calls) : reconcile(last.calls[k].request, ds) = "none"

\* a register that raised while the table holds another request
C8_Witness ==
    /\ last.op = "register"
    /\ last.raised # "none"
    /\ has_requests(requests)

\* the last call is a pass whose try block raised
PassFailed == last.op = "calculate_manual" /\ last.error # "none"

\* the except clause of calculate_manual logged the error
ErrorLogged == <<"error", "Error calculating metrics", last.error>> \in last.logged

\* C9 as stated: a failed pass logs the error, and raises it again exactly
\* when throw_errors is True.
C9_LoggedThenRaised ==
    PassFailed =>
        /\ ErrorLogged
        /\ last.raised = IF last.throw_errors THEN last.error ELSE "none"

\* C9, amended: with throw_errors=True a failed pass raises the error again
\* and calculate_manual does not log it; with throw_errors=False it logs the
\* error and raises nothing.
C9_RaisedOrLogged ==
    PassFailed =>
        IF last.throw_errors
        THEN last.raised = last.error /\ ~ErrorLogged
        ELSE last.raised = "none" /\ ErrorLogged

\* a pass with throw_errors=True whose fetch from the data source raised
C9_Witness ==
    /\ PassFailed
    /\ last.throw_errors
    /\ last.error = "DataframeCreateException"
    /\ last.raised = "DataframeCreateException"

\* C10: a pass that fails inside the periodic task does not end the task:
\* the task stays in its loop, the errors of the pass and of the await are
\* logged, the sleep after a failed pass ends, and a pass follows whenever
\* the task is at the top of its loop.
C10_TaskSurvivesFailure ==
    /\ [][(task.pc \in {"loop", "sleep"}) => (task'.pc \in {"loop", "sleep"})]_vars
    /\ [](last.op = "periodic_pass" =>
            /\ last.raised = "none"
            /\ \E e \in last.logged : e[1] = "error" /\ e[2] = "Error in scheduler task"
            /\ last.error # "none" =>
                <<"error", "Error calculating metrics", last.error>> \in last.logged)
    /\ (task.pc = "sleep" /\ task.error # "none") ~> (task.pc = "loop")
    /\ (task.pc = "loop") ~> (task.pc = "sleep" /\ last.op = "periodic_pass")

\* a pass of the task that ran after a pass of the task had failed
C10_Witness ==
    /\ last.op = "periodic_pass"
    /\ last.prev_error # "none"
    /\ task.pc = "sleep"

----------------------------------------------------------------------------
\* C12: get_value() on a carrier built from a mapping, and get_named_values()
\* on a carrier built from a scalar, fail with the InvalidAccessError, and the
\* carrier is after the call what it was before it.
C12_WrongAccessorFails ==
    [][ /\ (last'.op = "get_value" /\ ~last.arg.isnum)
            => (last'.raised = "ValueError" /\ ~last'.returned.some /\ carrier' = carrier)
        /\ (last'.op = "get_named_values" /\ last.arg.isnum)
            => (last'.raised = "ValueError" /\ ~last'.returned.some /\ carrier' = carrier)
      ]_vars

\* the wrong accessor of a carrier built from two named values has raised
C12_Witness ==
    /\ last.op = "get_value"
    /\ ~last.arg.isnum
    /\ Len(last.arg.v) = 2
    /\ last.raised = InvalidAccessError
    /\ carrier = MetricValueCarrier(last.arg)

----------------------------------------------------------------------------
\* the skip message of a model
SkipMessage(model_id) == <<"info", "Skipping metric calculation", model_id>>

\* C11: over consecutive passes in which a verified model has no recorded
\* inferences, the skip message of the model is logged at most once, by the
\* first such pass: a pass logs it only when the model is not yet in the
\* skip-log memory, the model is in the memory from then on, and nothing is
\* ever removed from the memory.
C11_SkipLoggedOnce ==
    [][ /\ has_logged \subseteq has_logged'
        /\ \A m \in Models :
              (last'.op = "calculate_manual" /\ SkipMessage(m) \in last'.logged)
              => (m \notin has_logged /\ m \in has_logged')
      ]_vars

\* a pass reached a model without inferences that was in the memory, and
\* logged nothing for it
C11_Witness ==
    /\ last.op = "calculate_manual"
    /\ last.error = "none"
    /\ \E m \in Models :
          /\ m \in has_logged
          /\ ~has_recorded_inferences(ds, m)
          /\ SkipMessage(m) \notin last.logged
          /\ \E s \in last.published :
                s.name = FullName("MODEL_OBSERVATIONS_TOTAL") /\ s.labels.model = m

\* C18: after every pass the registry holds exactly one MODEL_COUNT_TOTAL
\* series, under the fixed identifier of the model count, and its value is
\* the number of verified models of that pass.
C18_ModelCountAfterEveryPass ==
    last.op = "calculate_manual"
    => {s \in Series(registry) : s.name = FullName("MODEL_COUNT_TOTAL")}
       = {[name |-> FullName("MODEL_COUNT_TOTAL"),
           labels |-> _generate_tags("", uuid5("model_count"), None),
           value |-> Len(get_verified_models(ds))]}

----------------------------------------------------------------------------
\* C14: whatever the sequence of schedule_calculation calls, at most one
\* periodic task is added: the first call adds it, and a later call adds
\* nothing and changes nothing of the task.
C14_AtMostOneTask ==
    [][ /\ task'.added <= 1
        /\ task.running => (task'.running /\ task'.added = task.added)
        /\ (last'.op = "schedule_calculation" /\ last' # last /\ task.running)
            => task' = task
        /\ (last'.op = "schedule_calculation" /\ last' # last /\ ~task.running)
            => (task'.added = 1 /\ task'.running)
      ]_vars

\* a later call found the task running and added nothing
C14_Witness ==
    /\ last.op = "schedule_calculation"
    /\ last.logged = {}
    /\ task.added = 1
    /\ task.running

\* the interval of the claim: <n>s is n, <n>m is 60 n, <n>h is 3600 n
\* seconds, anything else 30
ClaimedInterval(metrics_schedule) ==
    LET n == Len(metrics_schedule)
        suffix == IF n > 0 THEN metrics_schedule[n] ELSE ""
        prefix == SubSeq(metrics_schedule, 1, n - 1)
    IN CASE suffix = "s" -> IntOf(prefix, 0)
         [] suffix = "m" -> 60 * IntOf(prefix, 0)
         [] suffix = "h" -> 3600 * IntOf(prefix, 0)
         [] OTHER -> 30

\* C15: the periodic task sleeps the interval its schedule string denotes:
\* n seconds for '<n>s', 60 n for '<n>m', 3600 n for '<n>h', and 30 for a
\* suffix that is not recognised.
C15_IntervalOfSchedule ==
    task.pc \in {"loop", "sleep"} => task.interval = ClaimedInterval(task.schedule)

----------------------------------------------------------------------------
\* C17: get_model_ids() is exactly the set of the model ids of all registered
\* requests of all buckets, also when one id is registered under several
\* metric names with different models.
C17_ModelIdsOfAllBuckets ==
    get_model_ids(requests) = {e.request.model_id : e \in AllEntries}

\* the requests of the flat view that a pass over the current data source
\* evaluates: their model is verified and has recorded inferences
MatchedRequests ==
    LET flat == get_all_requests_flat(requests)
    IN {flat[i] : i \in {j \in 1..Len(flat) :
                            /\ has_metadata(ds, flat[j].request.model_id)
                            /\ has_recorded_inferences(ds, flat[j].request.model_id)}}

\* C19: a pass during which the data source did not fail and that found no
\* calculator for a matched request logs a warning for it and raises no
\* error, and every other matched request, of the same model and of every
\* later verified model, is evaluated and its gauge-set published by that
\* pass.
C19_MissingCalculatorSkipsOneRequest ==
    ( /\ last.op = "calculate_manual"
      /\ last.error # "DataframeCreateException"
      /\ \E e \in MatchedRequests : get_calculator(e.request.metric_name) = "none" )
    => /\ last.error = "none"
       /\ \A e \in MatchedRequests :
            IF get_calculator(e.request.metric_name) = "none"
            THEN <<"warning", "No calculator found", e.request.metric_name>> \in last.logged
            ELSE /\ \E i \in 1..Len(last.calls) : last.calls[i].id = e.id
                 /\ Cardinality({s \in PublishedFor(e.id) :
                                    s.name = FullName(e.request.metric_name)})
                        = GaugeSetSize(e.request)

----------------------------------------------------------------------------
\* C20: remove_gauge is idempotent: called for an id that has no series
\* under the name and no entry in the value map it raises nothing and
\* leaves the registry and the value map as they are, and so does a second
\* remove_gauge with the arguments of a first one that returned.
C20_RemoveGaugeIdempotent ==
    [][ last'.op = "remove_gauge"
        => /\ (last'.before = {} /\ ~last'.existed)
               => (last'.raised = "none" /\ registry' = registry /\ values' = values)
           /\ last'.again
               => (last'.raised = "none" /\ registry' = registry /\ values' = values)
      ]_vars

\* a second remove_gauge with the arguments of the first, which had removed
\* the series or the value of the id
C20_Witness ==
    /\ last.op = "remove_gauge"
    /\ last.again
    /\ last.raised = "none"
    /\ last.before = {}
    /\ ~last.existed

----------------------------------------------------------------------------
\* C16: a pass evaluates the requests of the table as it was when the pass
\* started: every calculator call of a finished pass is for an id and
\* request that the flat view held at the start of the pass, so a request
\* registered after the start is not evaluated by that pass.
C16_PassEvaluatesSnapshot ==
    (last.op = "calculate_manual" /\ ~run.active)
    => \A i \in 1..Len(last.calls) :
          \E j \in 1..Len(run.at_start) :
             /\ run.at_start[j].id = last.calls[i].id
             /\ run.at_start[j].request = last.calls[i].request

----------------------------------------------------------------------------
\* the MODEL_OBSERVATIONS_TOTAL series of a model among those the last pass set
ObservationsPublished(model_id) ==
    \E s \in last.published :
        /\ s.name = FullName("MODEL_OBSERVATIONS_TOTAL")
        /\ s.labels = _generate_tags(model_id, uuid5(model_id), None)
        /\ s.value = get_num_observations(ds, model_id)

\* C21: for a verified model without recorded inferences a pass, during
\* which the data source did not fail, publishes MODEL_OBSERVATIONS_TOTAL of
\* the model, fetches no batch, calls no calculator and publishes no request
\* gauge for it, raises nothing, and goes on to the next verified model of
\* the list, whose MODEL_OBSERVATIONS_TOTAL it publishes too.
C21_SkippedModelIsNoError ==
    (last.op = "calculate_manual" /\ last.error # "DataframeCreateException")
    => LET verified_models == get_verified_models(ds)
       IN \A i \in 1..Len(verified_models) :
            ~has_recorded_inferences(ds, verified_models[i])
            => /\ ObservationsPublished(verified_models[i])
               /\ \A j \in 1..Len(last.fetches) : last.fetches[j].model # verified_models[i]
               /\ \A j \in 1..Len(last.calls) : last.calls[j].model # verified_models[i]
               /\ last.error = "none"
               /\ i < Len(verified_models) => ObservationsPublished(verified_models[i + 1])

----------------------------------------------------------------------------
\* the ids gauge() is called with
GaugeCallIds == {c.id : c \in GaugeCalls}

\* C22: every series of the registry carries a request label that is the
\* string form of an id, and every series a gauge() call sets carries the
\* string form of the id of the call, each named sub-series included and
\* also when the request's own tags hold a key "request"; the series of a
\* global statistic carries the label request and, when model_name is not
\* empty, model, and no other.
C22_RequestLabelIsId ==
    /\ \A s \in Series(registry) :
          /\ "request" \in DOMAIN s.labels
          /\ s.labels.request \in {Str(id) : id \in GaugeCallIds}
    /\ last.op = "gauge"
        => \A s \in last.published :
              /\ s \in Series(registry)
              /\ s.labels.request = Str(last.id)
              /\ last.shape = "metric_value"
                  => /\ DOMAIN s.labels =
                          {"request"} \cup (IF last.model # "" THEN {"model"} ELSE {})
                     /\ last.model # "" => s.labels.model = last.model

\* a sub-series of a request whose own tags hold the key "request" was set
C22_Witness ==
    /\ last.op = "gauge"
    /\ last.shape = "request_named"
    /\ "request" \in DOMAIN retrieve_tags(last.request)
    /\ \E s \in last.published :
          /\ s.labels.subcategory = NamedKeys[1]
          /\ s.labels.request = Str(last.id)
          /\ s \in Series(registry)

----------------------------------------------------------------------------
\* a call has one of the three shapes of gauge()
HasShape(c) ==
    \/ c.request.some /\ c.value.some
    \/ c.request.some /\ c.named_values.some
    \/ c.metric_name.some /\ c.value.some

\* C23: a gauge() call that has none of the three shapes (request with
\* value, request with named_values, metric_name with value) raises nothing
\* and leaves the registry and the value map as they are.
C23_NoShapeIsNoOp ==
    [][ (last'.op = "gauge" /\ last'.shape = "no_shape")
        => /\ last'.raised = "none"
           /\ last'.published = {}
           /\ registry' = registry
           /\ values' = values ]_vars

\* a call without a shape was made on a registry and a value map that hold
\* something; the calls marked no_shape are those that have no shape
C23_Witness ==
    /\ last.op = "gauge"
    /\ last.shape = "no_shape"
    /\ last.metric = "SPD"
    /\ Series(registry) # {}
    /\ DOMAIN values # {}
    /\ \A c \in GaugeCalls : (c.shape = "no_shape") <=> ~HasShape(c)

----------------------------------------------------------------------------
\* C24: after any sequence of register and delete calls has_requests() is
\* true exactly when a request is registered, that is when a bucket is not
\* empty; it is false again once every registered request was deleted,
\* although the emptied buckets remain.
C24_HasRequestsIffRegistered ==
    has_requests(requests) <=> AllEntries # {}

\* the last registered request was deleted, its bucket is still in the table
C24_Witness ==
    /\ last.op = "delete"
    /\ last.existed
    /\ requests # <<>>
    /\ AllEntries = {}
    /\ ~has_requests(requests)

----------------------------------------------------------------------------
\* the ids registered under some metric name
RegisteredIds == {e.id : e \in AllEntries}

\* C25: when a delete falls into a pass that has already collected the
\* request, then once the delete and the pass are over (and the id was not
\* registered again) the registry holds no series whose request label is
\* str(id) and the value map holds no entry of the id.
C25_DeletedInFlightNotPublished ==
    (last.op = "calculate_manual" /\ ~run.active)
    => \A id \in run.deleted_in_flight \ RegisteredIds :
          /\ \A s \in Series(registry) : s.labels.request # Str(id)
          /\ id \notin DOMAIN values

----------------------------------------------------------------------------
\* lines 94-95 of gauge(): the ids the named values of id are stored under
SubIds(id) == {uuid5(Str(id) \o IdxStr(idx)) : idx \in 0..(Len(NamedKeys) - 1)}

\* C26: after remove_gauge(metric_name, id) returned and no series of the
\* registry carries the request label str(id) any more, the value map holds
\* no entry of the id and none of a sub-identifier a named-values
\* publication derived from the id.
C26_ValuesTrackLiveSeries ==
    (/\ last.op = "remove_gauge"
     /\ last.raised = "none"
     /\ \A s \in Series(registry) : s.labels.request # Str(last.id))
    => /\ last.id \notin DOMAIN values
       /\ SubIds(last.id) \cap DOMAIN values = {}

====
